---- MODULE Spec2Model ----
(***************************************************************************)
(* A model of the doc-converter job store (file_handler.py), sanitizer     *)
(* (security.py) and conversion pipeline (markdown_converter.py).          *)
(*                                                                         *)
(* Texts are TLA+ strings handled character by character (Len, SubSeq,     *)
(* \o).  Two characters that a TLA+ string literal cannot hold portably    *)
(* are written by ASCII stand-ins: NUL for U+0000 and EACUTE for U+00E9    *)
(* (a letter outside ASCII, two bytes in UTF-8).                           *)
(***************************************************************************)
EXTENDS Integers, Sequences, FiniteSets, TLC

VARIABLES
    store,    \* the base directory: job directory path -> [mtime, files]
    now,      \* the wall clock, in hours
    issued,   \* the ids generate_job_id has returned so far
    swept,    \* the directories that sweeps have logged as deleted
    req,      \* per request: the conversion's position and data
    ret,      \* the last job-store call and what it returned
    fin,      \* input of the pure function under check
    fout      \* its output

vars == <<store, now, issued, swept, req, ret, fin, fout>>

----------------------------------------------------------------------------
(* Characters and strings                                                  *)

NUL == "@"
EACUTE == "~"

Char(s, i) == SubSeq(s, i, i)

StartsWith(s, p) == Len(p) <= Len(s) /\ SubSeq(s, 1, Len(p)) = p

EndsWith(s, p) == Len(p) <= Len(s) /\ SubSeq(s, Len(s) - Len(p) + 1, Len(s)) = p

Contains(s, p) == \E i \in 1..(Len(s) - Len(p) + 1) : SubSeq(s, i, i + Len(p) - 1) = p

Min(S) == CHOOSE m \in S : \A n \in S : m <= n

Max(S) == CHOOSE m \in S : \A n \in S : n <= m

\* The positions at which p occurs in s.
Occurrences(s, p) == {i \in 1..(Len(s) - Len(p) + 1) : SubSeq(s, i, i + Len(p) - 1) = p}

\* str.replace(p, ""): leftmost occurrences, not overlapping, one pass.
RECURSIVE RemoveAll(_, _)
RemoveAll(s, p) ==
    LET found == Occurrences(s, p)
    IN IF found = {} THEN s
       ELSE LET i == Min(found)
            IN SubSeq(s, 1, i - 1) \o RemoveAll(SubSeq(s, i + Len(p), Len(s)), p)

\* str.strip(chars): drops the leading and trailing characters that are in cs.
Strip(s, cs) ==
    IF \A i \in 1..Len(s) : Char(s, i) \in cs THEN ""
    ELSE LET first == CHOOSE i \in 1..Len(s) :
                        Char(s, i) \notin cs /\ \A j \in 1..(i - 1) : Char(s, j) \in cs
             last == CHOOSE i \in 1..Len(s) :
                        Char(s, i) \notin cs /\ \A j \in (i + 1)..Len(s) : Char(s, j) \in cs
         IN SubSeq(s, first, last)

\* s cut at the separator sep: the sequence of the pieces between separators.
RECURSIVE Split(_, _)
Split(s, sep) ==
    LET found == Occurrences(s, sep)
    IN IF found = {} THEN <<s>>
       ELSE LET i == Min(found)
            IN <<SubSeq(s, 1, i - 1)>> \o Split(SubSeq(s, i + Len(sep), Len(s)), sep)

RECURSIVE Join(_, _)
Join(parts, sep) ==
    IF Len(parts) = 0 THEN ""
    ELSE IF Len(parts) = 1 THEN parts[1]
    ELSE parts[1] \o sep \o Join(Tail(parts), sep)

HexDigits == {"0", "1", "2", "3", "4", "5", "6", "7", "8", "9",
              "a", "b", "c", "d", "e", "f", "A", "B", "C", "D", "E", "F"}

UpperAlpha == "ABCDEFGHIJKLMNOPQRSTUVWXYZ"

LowerAlpha == "abcdefghijklmnopqrstuvwxyz"

Digits == "0123456789"

CharsOf(s) == {Char(s, i) : i \in 1..Len(s)}

\* str.lower() of one character.
LowerChar(c) ==
    IF c \in CharsOf(UpperAlpha)
    THEN Char(LowerAlpha, CHOOSE i \in 1..26 : Char(UpperAlpha, i) = c)
    ELSE c

\* The positions at which p (in lower case) occurs in s, letter case ignored.
OccurrencesNoCase(s, p) ==
    {i \in 1..(Len(s) - Len(p) + 1) :
        \A k \in 1..Len(p) : LowerChar(Char(s, i + k - 1)) = Char(p, k)}

\* c repeated n times.
RECURSIVE RepStr(_, _)
RepStr(c, n) ==
    IF n <= 0 THEN ""
    ELSE IF n = 1 THEN c
    ELSE LET h == RepStr(c, n \div 2)
         IN h \o h \o (IF n % 2 = 1 THEN c ELSE "")

\* len(s.encode("utf-8")): one byte per ASCII character, two for U+00E9.
Utf8Len(s) == Len(s) + Cardinality({i \in 1..Len(s) : Char(s, i) = EACUTE})

\* Python 3 \w on str: Unicode letters and digits, and the underscore.
IsWordChar(c) == c \in CharsOf(UpperAlpha) \cup CharsOf(LowerAlpha) \cup CharsOf(Digits) \cup {"_", EACUTE}

\* [A-Za-z0-9_]: the ASCII word characters.
IsAsciiWordChar(c) == c \in CharsOf(UpperAlpha) \cup CharsOf(LowerAlpha) \cup CharsOf(Digits) \cup {"_"}

----------------------------------------------------------------------------
(* security.py: content validation                                         *)

\* The configured MAX_FILE_SIZE (environment variable MAX_FILE_SIZE).
MaxFileSize == 40

\* re.search(pattern, content, re.IGNORECASE) for each suspicious pattern:
\* the patterns that match.  "<script[^>]*>" matches when a ">" follows an
\* occurrence of "<script".
SuspiciousMatches(content) ==
    {p \in {"javascript:", "onerror=", "onload=", "eval(", "exec("} :
        OccurrencesNoCase(content, p) # {}}
    \cup (IF \E i \in OccurrencesNoCase(content, "<script") :
                \E j \in (i + 7)..Len(content) : Char(content, j) = ">"
          THEN {"<script>"} ELSE {})

\* A validation that looks at the size only.
ValidateSizeOnly(content, max_size) ==
    IF Utf8Len(content) > max_size
    THEN [result |-> "ContentTooLarge", warned |-> {}]
    ELSE [result |-> "ok", warned |-> SuspiciousMatches(content)]

\* A validation that rejects content of exactly max_size bytes.
ValidateBelowOnly(content, max_size) ==
    IF Utf8Len(content) >= max_size
    THEN [result |-> "ContentTooLarge", warned |-> {}]
    ELSE IF Contains(content, NUL)
    THEN [result |-> "BinaryContentDetected", warned |-> {}]
    ELSE [result |-> "ok", warned |-> SuspiciousMatches(content)]

\* validate_file_content(content, max_size): "ok" for True, else the error
\* raised (both are ValueError, told apart by their message); warned is the
\* set of suspicious patterns logged.
ValidateFileContent(content, max_size) ==
    IF Utf8Len(content) > max_size
    THEN [result |-> "ContentTooLarge", warned |-> {}]
    ELSE IF Contains(content, NUL)
    THEN [result |-> "BinaryContentDetected", warned |-> {}]
    ELSE [result |-> "ok", warned |-> SuspiciousMatches(content)]

----------------------------------------------------------------------------
(* security.py: metadata sanitization                                      *)
(* A metadata mapping is a sequence of <<key, value>> pairs in insertion   *)
(* order; a value is tagged with its Python type:                          *)
(*   [t |-> "str", v |-> string]      [t |-> "int", v |-> integer]         *)
(*   [t |-> "bool", v |-> boolean]    [t |-> "list", v |-> sequence]       *)
(*   [t |-> "dict", v |-> mapping]    [t |-> "other", v |-> its str()]     *)

MaxKeyLen == 50

MaxStrLen == 500

MaxListLen == 10

MaxItemLen == 100

\* s[:n]
Truncate(s, n) == SubSeq(s, 1, IF Len(s) < n THEN Len(s) ELSE n)

\* re.sub(r'<[^>]+>', '', s): each leftmost "<", one or more characters
\* other than ">", and the ">" that follows is dropped.
TagStarts(s) ==
    {i \in 1..Len(s) :
        /\ Char(s, i) = "<"
        /\ \E j \in (i + 2)..Len(s) :
              /\ Char(s, j) = ">"
              /\ \A k \in (i + 1)..(j - 1) : Char(s, k) # ">"}

RECURSIVE StripTags(_)
StripTags(s) ==
    IF TagStarts(s) = {} THEN s
    ELSE LET i == Min(TagStarts(s))
             j == Min({k \in (i + 2)..Len(s) : Char(s, k) = ">"})
         IN SubSeq(s, 1, i - 1) \o StripTags(SubSeq(s, j + 1, Len(s)))

\* re.sub(r'javascript:', '', s, flags=re.IGNORECASE): one pass.
RECURSIVE StripJavascript(_)
StripJavascript(s) ==
    IF OccurrencesNoCase(s, "javascript:") = {} THEN s
    ELSE LET i == Min(OccurrencesNoCase(s, "javascript:"))
         IN SubSeq(s, 1, i - 1) \o StripJavascript(SubSeq(s, i + 11, Len(s)))

\* re.sub(r'[^\w-]', '_', key)
RECURSIVE CleanKeyChars(_)
CleanKeyChars(key) ==
    IF key = "" THEN ""
    ELSE (IF IsWordChar(Char(key, 1)) \/ Char(key, 1) = "-" THEN Char(key, 1) ELSE "_")
         \o CleanKeyChars(SubSeq(key, 2, Len(key)))

CleanKey(key) == Truncate(CleanKeyChars(key), MaxKeyLen)

\* str(item) of a list item or of a value of another type.
PyStr(x) ==
    IF x.t = "str" THEN x.v
    ELSE IF x.t = "int" THEN ToString(x.v)
    ELSE IF x.t = "bool" THEN (IF x.v THEN "True" ELSE "False")
    ELSE IF x.t = "other" THEN x.v
    ELSE "[...]"

\* The loop body for a list item.
CleanItem(item) ==
    IF item.t = "str"
    THEN [t |-> "str", v |-> Truncate(StripTags(item.v), MaxItemLen)]
    ELSE [t |-> "str", v |-> Truncate(PyStr(item), MaxItemLen)]

\* sanitized[clean_key] = clean_value on an ordered mapping: an existing key
\* keeps its place and takes the new value.
DictSet(d, k, v) ==
    IF \E i \in 1..Len(d) : d[i][1] = k
    THEN [i \in 1..Len(d) |-> IF d[i][1] = k THEN <<k, v>> ELSE d[i]]
    ELSE Append(d, <<k, v>>)

RECURSIVE SanitizeMetadata(_)
RECURSIVE SanitizeFrom(_, _)

CleanValue(value) ==
    IF value.t = "str"
    THEN [t |-> "str", v |-> Truncate(StripJavascript(StripTags(value.v)), MaxStrLen)]
    ELSE IF value.t \in {"int", "bool"} THEN value
    ELSE IF value.t = "list"
    THEN [t |-> "list",
          v |-> [i \in 1..(IF Len(value.v) < MaxListLen THEN Len(value.v) ELSE MaxListLen)
                    |-> CleanItem(value.v[i])]]
    ELSE IF value.t = "dict" THEN [t |-> "dict", v |-> SanitizeMetadata(value.v)]
    ELSE [t |-> "str", v |-> Truncate(StripTags(PyStr(value)), MaxStrLen)]

SanitizeFrom(metadata, sanitized) ==
    IF Len(metadata) = 0 THEN sanitized
    ELSE LET key == Head(metadata)[1]
             clean_key == CleanKey(key)
             clean_value == CleanValue(Head(metadata)[2])
         IN SanitizeFrom(Tail(metadata),
                         IF clean_key # "" THEN DictSet(sanitized, clean_key, clean_value)
                         ELSE sanitized)

\* sanitize_metadata(metadata)
SanitizeMetadata(metadata) == SanitizeFrom(metadata, <<>>)

----------------------------------------------------------------------------
(* markdown_converter.py: front matter and the two renderers               *)

WhiteSpace == {" ", "\n", "\t", "\r"}

\* str.strip()
StripWs(s) == Strip(s, WhiteSpace)

\* A line matching ^-{3,}\s*$, the front-matter boundary.
IsBoundary(line) ==
    LET keep == {i \in 1..Len(line) : Char(line, i) \notin WhiteSpace}
        t == IF keep = {} THEN "" ELSE SubSeq(line, 1, Max(keep))
    IN Len(t) >= 3 /\ \A i \in 1..Len(t) : Char(t, i) = "-"

\* Characters with which no plain YAML scalar or key may start.
YamlIndicators == {"[", "]", "{", "}", "%", "\t", NUL}

RECURSIVE StrToNat(_)
StrToNat(s) ==
    IF s = "" THEN 0
    ELSE 10 * StrToNat(SubSeq(s, 1, Len(s) - 1))
         + (CHOOSE d \in 0..9 : Char(Digits, d + 1) = Char(s, Len(s)))

\* The value of a plain scalar: an integer, a boolean or a string.
YamlScalar(s) ==
    IF s # "" /\ Len(s) <= 3 /\ \A i \in 1..Len(s) : Char(s, i) \in CharsOf(Digits)
    THEN [t |-> "int", v |-> StrToNat(s)]
    ELSE IF s \in {"true", "false"} THEN [t |-> "bool", v |-> (s = "true")]
    ELSE [t |-> "str", v |-> s]

\* yaml.load of a block of "key: value" lines (the subset of YAML the model
\* reads): ok is FALSE when the loader raises; map is the mapping, empty when
\* the block is not a mapping.
YamlLoad(lines) ==
    LET used == SelectSeq(lines, LAMBDA l : StripWs(l) # "")
        IsPair(l) == Occurrences(l, ": ") # {}
        Bad(l) == Char(l, 1) \in YamlIndicators
        PairOf(l) ==
            LET i == Min(Occurrences(l, ": "))
            IN <<SubSeq(l, 1, i - 1), YamlScalar(StripWs(SubSeq(l, i + 2, Len(l))))>>
    IN IF \E i \in 1..Len(used) : Bad(used[i])
       THEN [ok |-> FALSE, map |-> <<>>]
       ELSE IF \A i \in 1..Len(used) : IsPair(used[i])
       THEN [ok |-> TRUE, map |-> [i \in 1..Len(used) |-> PairOf(used[i])]]
       ELSE IF \E i \in 1..Len(used) : IsPair(used[i])
       THEN [ok |-> FALSE, map |-> <<>>]
       ELSE [ok |-> TRUE, map |-> <<>>]

\* A parse_markdown without the fallback of its except clause: the
\* stripped text is returned in place of the content.
ParseStripped(content) == [metadata |-> <<>>, body |-> StripWs(content)]

\* parse_markdown(content): frontmatter.loads strips the text, looks for a
\* boundary on its first line and for the next boundary, loads the block
\* between them and returns the stripped rest; any exception gives empty
\* metadata and the content as it came.
ParseMarkdown(content) ==
    LET text == StripWs(content)
        lines == Split(text, "\n")
        ends == {k \in 2..Len(lines) : IsBoundary(lines[k])}
    IN IF ~IsBoundary(lines[1]) \/ ends = {}
       THEN [metadata |-> <<>>, body |-> text]
       ELSE LET k == Min(ends)
                fm == YamlLoad(SubSeq(lines, 2, k - 1))
            IN IF ~fm.ok THEN [metadata |-> <<>>, body |-> content]
               ELSE [metadata |-> fm.map,
                     body |-> StripWs(Join(SubSeq(lines, k + 1, Len(lines)), "\n"))]

\* dict lookups on an ordered mapping.
Has(d, k) == \E i \in 1..Len(d) : d[i][1] = k

Get(d, k, default) == IF Has(d, k) THEN d[CHOOSE i \in 1..Len(d) : d[i][1] = k][2] ELSE default

\* ', '.join(str(v) for v in value)
JoinItems(items) == Join([i \in 1..Len(items) |-> PyStr(items[i])], ", ")

\* The text that an f-string puts for a value; a list is joined where the
\* code joins it.
Shown(value, joined) == IF value.t = "list" /\ joined THEN JoinItems(value.v) ELSE PyStr(value)

UpperChar(c) ==
    IF c \in CharsOf(LowerAlpha)
    THEN Char(UpperAlpha, CHOOSE i \in 1..26 : Char(LowerAlpha, i) = c)
    ELSE c

IsLetter(c) == c \in CharsOf(LowerAlpha) \cup CharsOf(UpperAlpha) \cup {EACUTE}

\* key.replace('_', ' ').title()
RECURSIVE TitleFrom(_, _)
TitleFrom(s, prev) ==
    IF s = "" THEN ""
    ELSE LET c == IF Char(s, 1) = "_" THEN " " ELSE Char(s, 1)
         IN (IF IsLetter(prev) THEN LowerChar(c) ELSE UpperChar(c))
            \o TitleFrom(SubSeq(s, 2, Len(s)), c)

KeyDisplay(key) == TitleFrom(key, " ")

\* The loop over the custom fields of format_front_matter.
RECURSIVE OtherLines(_)
OtherLines(metadata) ==
    IF Len(metadata) = 0 THEN <<>>
    ELSE LET key == Head(metadata)[1]
             value == Head(metadata)[2]
         IN (IF key \notin {"title", "author", "date", "tags"}
             THEN <<"**" \o KeyDisplay(key) \o ":** " \o Shown(value, TRUE) \o "  ">>
             ELSE <<>>)
            \o OtherLines(Tail(metadata))

\* A format_front_matter that puts the date before the author.
FormatFrontMatterDateFirst(metadata) ==
    IF Len(metadata) = 0 THEN ""
    ELSE Join(
        <<"# " \o Shown(Get(metadata, "title", [t |-> "str", v |-> "Untitled Document"]), FALSE) \o "\n">>
        \o (IF Has(metadata, "date")
            THEN <<"**Date:** " \o Shown(Get(metadata, "date", <<>>), FALSE) \o "  ">> ELSE <<>>)
        \o (IF Has(metadata, "author")
            THEN <<"**Author:** " \o Shown(Get(metadata, "author", <<>>), FALSE) \o "  ">> ELSE <<>>)
        \o (IF Has(metadata, "tags")
            THEN <<"**Tags:** " \o Shown(Get(metadata, "tags", <<>>), TRUE) \o "  ">> ELSE <<>>)
        \o OtherLines(metadata)
        \o <<"\n---\n">>,
        "\n")

\* format_front_matter(metadata)
FormatFrontMatter(metadata) ==
    IF Len(metadata) = 0 THEN ""
    ELSE Join(
        <<"# " \o Shown(Get(metadata, "title", [t |-> "str", v |-> "Untitled Document"]), FALSE) \o "\n">>
        \o (IF Has(metadata, "author")
            THEN <<"**Author:** " \o Shown(Get(metadata, "author", <<>>), FALSE) \o "  ">> ELSE <<>>)
        \o (IF Has(metadata, "date")
            THEN <<"**Date:** " \o Shown(Get(metadata, "date", <<>>), FALSE) \o "  ">> ELSE <<>>)
        \o (IF Has(metadata, "tags")
            THEN <<"**Tags:** " \o Shown(Get(metadata, "tags", <<>>), TRUE) \o "  ">> ELSE <<>>)
        \o OtherLines(metadata)
        \o <<"\n---\n">>,
        "\n")

\* _format_front_matter_html(metadata)
RECURSIVE HtmlLines(_)
HtmlLines(metadata) ==
    IF Len(metadata) = 0 THEN ""
    ELSE "<p><strong>" \o KeyDisplay(Head(metadata)[1]) \o ":</strong> "
         \o Shown(Head(metadata)[2], TRUE) \o "</p>\n" \o HtmlLines(Tail(metadata))

FormatFrontMatterHtml(metadata) ==
    "<div class=\"front-matter\">\n<h2>Document Information</h2>\n"
    \o HtmlLines(metadata) \o "</div>\n"

\* The rule of _get_default_css(title) that holds the title.
DefaultCss(title) == "@top-right { content: \"" \o title \o "\"; }"

\* The Markdown-to-HTML capability, which the body alone goes through.
MarkdownToHtml(body) == "<p>" \o body \o "</p>"

\* The document convert_to_docx hands to pandoc, built from the document's
\* metadata and body.
DocxDocument(metadata, body, include_front_matter) ==
    LET formatted_fm == IF include_front_matter THEN FormatFrontMatter(metadata) ELSE ""
    IN Join((IF formatted_fm # "" THEN <<formatted_fm>> ELSE <<>>) \o <<body>>, "\n")

\* The html_document convert_to_pdf hands to WeasyPrint: its <title>, its
\* stylesheet, the front-matter panel and the body.
PdfDocument(metadata, body, include_front_matter, css_style) ==
    [title |-> Shown(Get(metadata, "title", [t |-> "str", v |-> "Document"]), FALSE),
     css   |-> IF css_style = "" \* None
               THEN DefaultCss(Shown(Get(metadata, "title", [t |-> "str", v |-> ""]), FALSE))
               ELSE css_style,
     front |-> IF include_front_matter /\ Len(metadata) > 0
               THEN FormatFrontMatterHtml(metadata) ELSE "",
     body  |-> MarkdownToHtml(body)]

\* What convert_to_docx(content, ...) renders: it parses the content itself.
ConvertToDocxDocument(content, include_front_matter) ==
    LET parsed == ParseMarkdown(content)
    IN DocxDocument(parsed.metadata, parsed.body, include_front_matter)

\* What convert_to_pdf(content, ...) renders: it parses the content itself.
ConvertToPdfDocument(content, include_front_matter, css_style) ==
    LET parsed == ParseMarkdown(content)
    IN PdfDocument(parsed.metadata, parsed.body, include_front_matter, css_style)

----------------------------------------------------------------------------
(* Job ids and paths                                                       *)

\* uuid.UUID(job_id) does not raise ValueError: after dropping "urn:",
\* "uuid:", surrounding braces and hyphens, 32 hexadecimal digits remain.
IsValidUUID(job_id) ==
    LET h1 == RemoveAll(RemoveAll(job_id, "urn:"), "uuid:")
        h2 == RemoveAll(Strip(h1, {"{", "}"}), "-")
    IN Len(h2) = 32 /\ \A i \in 1..32 : Char(h2, i) \in HexDigits

\* Config.CONVERTED_FOLDER, the fixed base directory.
BaseDir == "/tmp/converted"

\* pathlib's Path(base) / child: an absolute child replaces the base.
PathJoin(base, child) ==
    IF StartsWith(child, "/") THEN child
    ELSE IF child = "" THEN base
    ELSE base \o "/" \o child

\* The segments of a path with "", "." and ".." resolved.
RECURSIVE Normalize(_, _)
Normalize(segs, acc) ==
    IF Len(segs) = 0 THEN acc
    ELSE LET h == Head(segs)
         IN IF h = "" \/ h = "." THEN Normalize(Tail(segs), acc)
            ELSE IF h = ".." THEN
                Normalize(Tail(segs),
                          IF Len(acc) = 0 THEN acc ELSE SubSeq(acc, 1, Len(acc) - 1))
            ELSE Normalize(Tail(segs), Append(acc, h))

\* Path.resolve() of an absolute path in a store that holds no symbolic
\* links (no operation of the program creates one).
Resolve(path) == "/" \o Join(Normalize(Split(path, "/"), <<>>), "/")

\* The directories above the job directories, which exist throughout.
Ancestors == {"/", "/tmp", BaseDir}

\* Path.exists() of a directory path.
Exists(st, path) == path \in DOMAIN st \/ path \in Ancestors

\* A glob over every job directory instead of the one given.
GlobAll(st, dir, format_type) ==
    {n \in UNION {DOMAIN st[d].files : d \in DOMAIN st} : EndsWith(n, "." \o format_type)}

\* A glob that ignores the extension.
GlobAnyExt(st, dir, format_type) ==
    IF dir \in DOMAIN st THEN DOMAIN st[dir].files ELSE {}

\* job_dir.glob("*." + format_type): the entries of the directory whose name
\* ends with the dot and the extension.
Glob(st, dir, format_type) ==
    IF dir \in DOMAIN st
    THEN {n \in DOMAIN st[dir].files : EndsWith(n, "." \o format_type)}
    ELSE {}

----------------------------------------------------------------------------
(* file_handler.py: the job store                                          *)
(* store maps the path of each existing job directory to its modification  *)
(* time and its files (file name -> state of the file).                    *)

NoFiles == [n \in {} |-> "complete"]

\* Path.mkdir(parents=True, exist_ok=True) at time t.
Mkdir(st, dir, t) ==
    IF dir \in DOMAIN st THEN st ELSE (dir :> [mtime |-> t, files |-> NoFiles]) @@ st

\* A file (re)written in a directory at time t, which stamps the directory.
WriteFile(st, dir, name, state, t) ==
    [st EXCEPT ![dir] = [mtime |-> t, files |-> (name :> state) @@ @.files]]

\* The pool uuid.uuid4() draws from.
UuidPool == <<"11111111-aaaa-4aaa-8aaa-aaaaaaaaaaaa",
              "22222222-bbbb-4bbb-8bbb-bbbbbbbbbbbb",
              "33333333-cccc-4ccc-8ccc-cccccccccccc",
              "44444444-dddd-4ddd-8ddd-dddddddddddd">>

\* A generator that returns the same id at every call.
GenerateFixedId(used) == UuidPool[1]

\* generate_job_id(): a version-4 UUID never returned before (the ids are
\* interchangeable, so the next unused one of the pool stands for any).
GenerateJobId(used) == UuidPool[Cardinality(used) + 1]

\* A get_job_directory that makes the directory anew when it is there.
GetJobDirectoryAnew(job_id, base_dir, st, t) ==
    IF ~IsValidUUID(job_id)
    THEN [error |-> "InvalidJobId", path |-> "", store |-> st]
    ELSE [error |-> "", path |-> PathJoin(base_dir, job_id),
          store |-> (PathJoin(base_dir, job_id) :> [mtime |-> t, files |-> NoFiles]) @@ st]

\* get_job_directory(job_id, base_dir) at time t: the error raised or the
\* path returned, and the store it leaves.
GetJobDirectory(job_id, base_dir, st, t) ==
    IF ~IsValidUUID(job_id)
    THEN [error |-> "InvalidJobId", path |-> "", store |-> st]
    ELSE [error |-> "", path |-> PathJoin(base_dir, job_id),
          store |-> Mkdir(st, PathJoin(base_dir, job_id), t)]

ValidFormats == {"docx", "pdf"}

\* str(job_dir).startswith(str(base_path))
IsContained(job_dir, base_path) == StartsWith(job_dir, base_path)

\* The second half of get_file_path: the job directory is resolved, checked
\* to lie under the base directory, then searched.
LookUp(job_id, format_type, base_dir, st) ==
    LET base_path == Resolve(base_dir)
        job_dir == Resolve(PathJoin(base_path, job_id))
    IN IF ~IsContained(job_dir, base_path)
       THEN {[kind |-> "error", value |-> "PathTraversal",
              steps |-> <<"uuid", "format", "resolve", "contain">>]}
       ELSE IF ~Exists(st, job_dir)
       THEN {[kind |-> "none", value |-> "",
              steps |-> <<"uuid", "format", "resolve", "contain", "exists">>]}
       ELSE IF Glob(st, job_dir, format_type) = {}
       THEN {[kind |-> "none", value |-> "",
              steps |-> <<"uuid", "format", "resolve", "contain", "exists", "glob">>]}
       ELSE {[kind |-> "path", value |-> job_dir \o "/" \o n,
              steps |-> <<"uuid", "format", "resolve", "contain", "exists", "glob">>]
             : n \in Glob(st, job_dir, format_type)}

\* get_file_path without the check of the id.
GetFilePathUnchecked(job_id, format_type, base_dir, st) ==
    IF format_type \notin ValidFormats
    THEN {[kind |-> "error", value |-> "InvalidFormat", steps |-> <<"format">>]}
    ELSE LookUp(job_id, format_type, base_dir, st)

\* get_file_path with the format checked before the id.
GetFilePathFormatFirst(job_id, format_type, base_dir, st) ==
    IF format_type \notin ValidFormats
    THEN {[kind |-> "error", value |-> "InvalidFormat", steps |-> <<"format">>]}
    ELSE IF ~IsValidUUID(job_id)
    THEN {[kind |-> "error", value |-> "InvalidJobId", steps |-> <<"format", "uuid">>]}
    ELSE LookUp(job_id, format_type, base_dir, st)

\* get_file_path(job_id, format_type, base_dir): the possible outcomes (glob
\* yields the matching files in no fixed order and the first is returned).
\* kind is "error" (value names the ValueError), "none" or "path"; steps
\* lists what the call did, in order.
GetFilePath(job_id, format_type, base_dir, st) ==
    IF ~IsValidUUID(job_id)
    THEN {[kind |-> "error", value |-> "InvalidJobId", steps |-> <<"uuid">>]}
    ELSE IF format_type \notin ValidFormats
    THEN {[kind |-> "error", value |-> "InvalidFormat", steps |-> <<"uuid", "format">>]}
    ELSE LookUp(job_id, format_type, base_dir, st)

\* An age test that also takes a directory aged exactly the limit.
IsOldInclusive(st, dir, t, max_age_hours) == st[dir].mtime <= t - max_age_hours

\* dir_mtime < cutoff_time, with cutoff_time = now - max_age_hours.
IsOld(st, dir, t, max_age_hours) == st[dir].mtime < t - max_age_hours

\* What the loop body of cleanup_old_files may do to an expired directory:
\* delete it, or raise (stat or rmtree failing) and leave it as it was.  A
\* stat that fails on a younger directory leaves the same store and count
\* as one that succeeds.
Fates == {"deleted", "failed"}

\* A sweep that counts and logs the expired directories and deletes none.
CleanupReportOnly(st, t, max_age_hours) ==
    LET old == {d \in DOMAIN st : IsOld(st, d, t, max_age_hours)}
    IN {[count |-> Cardinality(old), deleted |-> old, failed |-> {}, store |-> st]}

\* A sweep that deletes every directory, whatever its age.
CleanupEverything(st, t, max_age_hours) ==
    {[count |-> Cardinality(DOMAIN st), deleted |-> DOMAIN st, failed |-> {},
      store |-> [d \in {} |-> st[d]]]}

\* A sweep that deletes at most one expired directory per call.
CleanupOnePerCall(st, t, max_age_hours) ==
    LET old == {d \in DOMAIN st : IsOld(st, d, t, max_age_hours)}
    IN IF old = {} THEN {[count |-> 0, deleted |-> {}, failed |-> {}, store |-> st]}
       ELSE {[count |-> 1, deleted |-> {d}, failed |-> {},
              store |-> [e \in DOMAIN st \ {d} |-> st[e]]] : d \in old}

\* A sweep without the try block in its loop: a failure on one directory
\* ends it before any other directory is deleted.
CleanupAborting(st, t, max_age_hours) ==
    LET old == {d \in DOMAIN st : IsOld(st, d, t, max_age_hours)}
    IN {IF \E d \in old : f[d] = "failed"
        THEN [count |-> 0, deleted |-> {}, failed |-> {d \in old : f[d] = "failed"},
              store |-> st]
        ELSE [count |-> Cardinality(old), deleted |-> old, failed |-> {},
              store |-> [d \in DOMAIN st \ old |-> st[d]]] :
            f \in [old -> Fates]}

\* cleanup_old_files(base_dir, max_age_hours) at time t: the possible
\* outcomes, each the count returned, the directories logged as deleted,
\* the directories logged as failed and the store left.
CleanupOldFiles(st, t, max_age_hours) ==
    LET old == {d \in DOMAIN st : IsOld(st, d, t, max_age_hours)}
    IN {[count |-> Cardinality({d \in old : f[d] = "deleted"}),
         deleted |-> {d \in old : f[d] = "deleted"},
         failed |-> {d \in old : f[d] = "failed"},
         store |-> [d \in {e \in DOMAIN st : e \notin old \/ f[e] = "failed"} |-> st[d]]] :
            f \in [old -> Fates]}

\* is_job_expired(job_id, base_dir, max_age_hours) at time t: the possible
\* outcomes, each what became of the stat call and the value returned.
IsJobExpired(job_id, base_dir, max_age_hours, st, t) ==
    LET job_dir == PathJoin(base_dir, job_id)
    IN IF ~Exists(st, job_dir) THEN {[stat |-> "absent", result |-> TRUE]}
       ELSE {[stat |-> "ok", result |-> IsOld(st, job_dir, t, max_age_hours)],
             [stat |-> "error", result |-> TRUE]}

\* The paths of the files in the job directories.
FilePaths(st) == UNION {{PathJoin(d, n) : n \in DOMAIN st[d].files} : d \in DOMAIN st}

\* Path.is_file()
IsFile(st, path) == path \in FilePaths(st)

\* Path.exists() for a directory or a file.
PathExists(st, path) == Exists(st, path) \/ IsFile(st, path)

\* The directory and the name of a file path.
Located(st, path) ==
    CHOOSE e \in UNION {{<<d, n>> : n \in DOMAIN st[d].files} : d \in DOMAIN st} :
        PathJoin(e[1], e[2]) = path

\* path.unlink()
Unlink(st, dir, name, t) ==
    [st EXCEPT ![dir] = [mtime |-> t,
                         files |-> [n \in DOMAIN @.files \ {name} |-> @.files[n]]]]

\* What shutil.rmtree may leave of a directory when it raises: the whole
\* directory, or the directory with some of its files removed.
RmtreeLeftovers(st, dir, t) ==
    {st} \cup
    {[st EXCEPT ![dir] = [mtime |-> t, files |-> [n \in keep |-> @.files[n]]]] :
        keep \in (SUBSET DOMAIN st[dir].files) \ {DOMAIN st[dir].files}}

\* A secure_delete_file that answers True whatever happened.
SecureDeleteUnchecked(file_path, st, t) ==
    IF ~PathExists(st, file_path) THEN {[result |-> TRUE, store |-> st]}
    ELSE IF IsFile(st, file_path)
    THEN {[result |-> TRUE, store |-> st]}
    ELSE {[result |-> TRUE, store |-> o] : o \in RmtreeLeftovers(st, file_path, t)}

\* secure_delete_file(file_path) at time t: the possible outcomes, each the
\* value returned and the store left.  A file is overwritten and unlinked,
\* or stat or open raises and it stays as it was, or unlink raises and it
\* stays overwritten; a directory is removed, or rmtree raises.  Every
\* exception is caught and answered with False.
SecureDeleteFile(file_path, st, t) ==
    IF ~PathExists(st, file_path) THEN {[result |-> FALSE, store |-> st]}
    ELSE IF IsFile(st, file_path)
    THEN LET dir == Located(st, file_path)[1]
             name == Located(st, file_path)[2]
         IN {[result |-> TRUE, store |-> Unlink(st, dir, name, t)],
             [result |-> FALSE, store |-> st],
             [result |-> FALSE, store |-> [st EXCEPT ![dir].files[name] = "overwritten"]]}
    ELSE IF file_path \in DOMAIN st
    THEN {[result |-> TRUE, store |-> [d \in DOMAIN st \ {file_path} |-> st[d]]]}
         \cup {[result |-> FALSE, store |-> o] : o \in RmtreeLeftovers(st, file_path, t)}
    ELSE {[result |-> FALSE, store |-> st]}

----------------------------------------------------------------------------
(* The conversion requests                                                 *)

NumReqs == 2

Reqs == 1..NumReqs

MaxTicks == 2

\* The default max_age_hours, the TTL of a job.
MaxAgeHours == 24

\* The hours that pass in one step of the clock: one TTL.
TickHours == MaxAgeHours

MaxJobs == 2

\* The base name of a request's output files.
BaseName == "report"

\* Config.INCLUDE_FRONT_MATTER
IncludeFrontMatter == TRUE

\* The contents submitted: a front-matter block whose title holds markup, a
\* null byte, and one byte more than MaxFileSize.
Contents == {"---\ntitle: <b>T\nauthor: Jane\n---\nBody",
             "Bo" \o NUL,
             RepStr("x", MaxFileSize + 1)}

NoPdf == [title |-> "", css |-> "", front |-> "", body |-> ""]

IdleReq == [pc |-> "idle", content |-> "", formats |-> "", job |-> "",
            doc |-> [metadata |-> <<>>, body |-> ""], results |-> <<>>,
            docx |-> "", pdf |-> NoPdf, error |-> "", log |-> <<>>]

\* The ids and formats with which get_file_path is called.
IdInputs == {UuidPool[1], "../../etc"}

FormatInputs == {"docx", "pdf", "exe"}

\* The service at start: an empty base directory, no request under way.
Started ==
    /\ store = [d \in {} |-> [mtime |-> 0, files |-> NoFiles]]
    /\ now = 0
    /\ issued = {}
    /\ swept = {}
    /\ req = [r \in Reqs |-> IdleReq]
    /\ ret = [op |-> "none"]

Init ==
    /\ Started
    /\ fin = [f |-> "none"]
    /\ fout = [done |-> FALSE]

\* The orchestrator's first steps: validate the content, parse the front
\* matter, sanitize the metadata, create the job.
Submit(r) ==
    /\ req[r].pc = "idle"
    /\ \E content \in Contents, formats \in {"docx", "pdf", "both"} :
        LET v == ValidateFileContent(content, MaxFileSize)
            parsed == ParseMarkdown(content)
            id == GenerateJobId(issued)
            made == GetJobDirectory(id, BaseDir, store, now)
        IN IF v.result # "ok"
           THEN /\ req' = [req EXCEPT ![r] = [IdleReq EXCEPT
                             !.pc = "rejected", !.content = content,
                             !.error = v.result, !.log = <<"validate">>]]
                /\ UNCHANGED <<store, issued>>
           ELSE /\ req' = [req EXCEPT ![r] = [IdleReq EXCEPT
                             !.pc = IF formats = "pdf" THEN "pdf" ELSE "docx",
                             !.content = content, !.formats = formats,
                             !.job = made.path,
                             !.doc = [metadata |-> SanitizeMetadata(parsed.metadata),
                                      body |-> parsed.body],
                             !.log = <<"validate", "parse", "sanitize", "create_job">>]]
                /\ store' = made.store
                /\ issued' = issued \cup {id}
    /\ UNCHANGED <<now, swept, ret, fin, fout>>

\* The store after a renderer's external tool ran on an output path in dir:
\* "ok" wrote the file, "error" wrote nothing; with the directory gone every
\* run is an error.
AfterRender(st, dir, name, outcome, t) ==
    IF dir \notin DOMAIN st \/ outcome = "error" THEN st
    ELSE WriteFile(st, dir, name, "complete", t)

Rendered(st, dir, outcome) == dir \in DOMAIN st /\ outcome = "ok"

\* convert_to_docx(content, output_path, include_front_matter); for a
\* request of both formats this is the first half of convert_to_both, which
\* makes the directory and calls it with the default include_front_matter.
RenderDocx(r) ==
    /\ req[r].pc = "docx"
    /\ \E outcome \in {"ok", "error"} :
        LET both == req[r].formats = "both"
            st == IF both THEN Mkdir(store, req[r].job, now) ELSE store
            name == BaseName \o ".docx"
            include == IF both THEN FALSE ELSE IncludeFrontMatter
        IN /\ store' = AfterRender(st, req[r].job, name, outcome, now)
           /\ req' = [req EXCEPT ![r] =
                IF Rendered(st, req[r].job, outcome)
                THEN [@ EXCEPT !.pc = IF both THEN "pdf" ELSE "done",
                               !.docx = ConvertToDocxDocument(req[r].content, include),
                               !.results = IF both THEN @
                                           ELSE <<[format |-> "docx",
                                                   path |-> req[r].job \o "/" \o name]>>,
                               !.log = Append(@, "docx")]
                ELSE [@ EXCEPT !.pc = "failed", !.error = "ConversionError",
                               !.log = Append(@, "docx")]]
    /\ UNCHANGED <<now, issued, swept, ret, fin, fout>>

\* convert_to_pdf(content, output_path, include_front_matter, css_style);
\* for a request of both formats the second half of convert_to_both, which
\* returns both paths.
RenderPdf(r) ==
    /\ req[r].pc = "pdf"
    /\ \E outcome \in {"ok", "error"} :
        LET both == req[r].formats = "both"
            name == BaseName \o ".pdf"
            include == IF both THEN TRUE ELSE IncludeFrontMatter
        IN /\ store' = AfterRender(store, req[r].job, name, outcome, now)
           /\ req' = [req EXCEPT ![r] =
                IF Rendered(store, req[r].job, outcome)
                THEN [@ EXCEPT !.pc = "done",
                               !.pdf = ConvertToPdfDocument(req[r].content, include, ""),
                               !.results = (IF both
                                            THEN <<[format |-> "docx",
                                                    path |-> req[r].job \o "/" \o BaseName \o ".docx"]>>
                                            ELSE <<>>)
                                           \o <<[format |-> "pdf",
                                                 path |-> req[r].job \o "/" \o name]>>,
                               !.log = Append(@, "pdf")]
                ELSE [@ EXCEPT !.pc = "failed", !.error = "ConversionError",
                               !.log = Append(@, "pdf")]]
    /\ UNCHANGED <<now, issued, swept, ret, fin, fout>>

\* Time passes.
Tick ==
    /\ now < MaxTicks * TickHours
    /\ now' = now + TickHours
    /\ ret' = [op |-> "tick"]
    /\ UNCHANGED <<store, issued, swept, req, fin, fout>>

\* cleanup_old_files(base_dir, max_age_hours)
Sweep ==
    /\ \E o \in CleanupOldFiles(store, now, MaxAgeHours) :
        /\ store' = o.store
        /\ swept' = swept \cup o.deleted
        /\ ret' = [op |-> "sweep", count |-> o.count, failed |-> o.failed,
                    again |-> ret.op = "sweep"]
    /\ UNCHANGED <<now, issued, req, fin, fout>>

Next ==
    \/ \E r \in Reqs : Submit(r)
    \/ \E r \in Reqs : RenderDocx(r)
    \/ \E r \in Reqs : RenderPdf(r)

\* The conversion pipeline of concurrent requests.
Spec == Init /\ [][Next]_vars

RaceNext ==
    \/ \E r \in Reqs : Submit(r)
    \/ \E r \in Reqs : RenderDocx(r)
    \/ \E r \in Reqs : RenderPdf(r)
    \/ Tick
    \/ Sweep

\* The conversion pipeline with the clock and the expiry sweep running
\* beside the requests.
SpecRace == Init /\ [][RaceNext]_vars

----------------------------------------------------------------------------
(* The job store on its own: jobs are created, renderers write output      *)
(* files into them, files are looked up.                                   *)

\* generate_job_id() and get_job_directory(job_id, base_dir)
CreateJob ==
    /\ Cardinality(issued) < MaxJobs
    /\ LET id == GenerateJobId(issued)
       IN /\ store' = GetJobDirectory(id, BaseDir, store, now).store
          /\ issued' = issued \cup {id}
    /\ ret' = [op |-> "create"]
    /\ UNCHANGED <<now, swept, req, fin, fout>>

\* A renderer writes its output file into an existing job directory.
WriteOutput ==
    /\ \E dir \in DOMAIN store, format_type \in ValidFormats :
        store' = AfterRender(store, dir, BaseName \o "." \o format_type, "ok", now)
    /\ ret' = [op |-> "write"]
    /\ UNCHANGED <<now, issued, swept, req, fin, fout>>

\* get_file_path(job_id, format_type, base_dir)
ResolveFile ==
    /\ \E job_id \in IdInputs, format_type \in FormatInputs :
        \E out \in GetFilePath(job_id, format_type, BaseDir, store) :
            ret' = [op |-> "resolve", job_id |-> job_id, format |-> format_type,
                    out |-> out]
    /\ UNCHANGED <<store, now, issued, swept, req, fin, fout>>

StoreNext ==
    \/ CreateJob
    \/ WriteOutput
    \/ ResolveFile

SpecStore == Init /\ [][StoreNext]_vars

\* The job store with the clock and the expiry sweep.
ExpiryNext ==
    \/ CreateJob
    \/ WriteOutput
    \/ Tick
    \/ Sweep
    \/ ResolveFile

SpecExpiry == Init /\ [][ExpiryNext]_vars

\* The ids is_job_expired is asked about.
ExpiryIds == {UuidPool[1], UuidPool[2]}

\* is_job_expired(job_id, base_dir, max_age_hours)
CheckExpired ==
    /\ \E job_id \in ExpiryIds :
        \E o \in IsJobExpired(job_id, BaseDir, MaxAgeHours, store, now) :
            ret' = [op |-> "expired", job_id |-> job_id, out |-> o]
    /\ UNCHANGED <<store, now, issued, swept, req, fin, fout>>

SweepNext ==
    \/ CreateJob
    \/ WriteOutput
    \/ Tick
    \/ Sweep
    \/ CheckExpired

\* The job store under the clock, the sweep and the expiry test.
SpecSweep == Init /\ [][SweepNext]_vars

\* The paths secure_delete_file is given: the job directories, their
\* files, and a path that is not there.
DeleteInputs ==
    DOMAIN store \cup FilePaths(store) \cup {PathJoin(BaseDir, UuidPool[4])}

\* secure_delete_file(file_path)
SecureDelete ==
    /\ \E file_path \in DeleteInputs :
        \E o \in SecureDeleteFile(file_path, store, now) :
            /\ store' = o.store
            /\ ret' = [op |-> "delete", path |-> file_path, result |-> o.result]
    /\ UNCHANGED <<now, issued, swept, req, fin, fout>>

\* get_job_directory(job_id, base_dir)
GetDirectory ==
    /\ \E job_id \in IdInputs :
        LET o == GetJobDirectory(job_id, BaseDir, store, now)
        IN /\ store' = o.store
           /\ ret' = [op |-> "get_dir", job_id |-> job_id, error |-> o.error,
                      path |-> o.path]
    /\ UNCHANGED <<now, issued, swept, req, fin, fout>>

DeleteNext ==
    \/ CreateJob
    \/ WriteOutput
    \/ SecureDelete
    \/ GetDirectory

\* The job store with secure_delete_file and get_job_directory.
SpecDelete == Init /\ [][DeleteNext]_vars

----------------------------------------------------------------------------
(* validate_file_content as a function of its arguments                    *)

MaxLimit == 4

ValidatePieces ==
    {"", "a", EACUTE, NUL, "<script>", "javaScript:", "onerror=", "onload=",
     "eval(", "exec("}

ValidateContents == {a \o b : a, b \in ValidatePieces}

\* The limits the function is called with: small ones that the contents
\* reach, and the configured one.
ValidateLimits == (0..MaxLimit) \cup {MaxFileSize}

InitValidate ==
    /\ Started
    /\ fin \in [content : ValidateContents, max_size : ValidateLimits]
    /\ fout = [done |-> FALSE]

Validate ==
    /\ ~fout.done
    /\ fout' = [done |-> TRUE, out |-> ValidateFileContent(fin.content, fin.max_size)]
    /\ UNCHANGED <<store, now, issued, swept, req, ret, fin>>

SpecValidate == InitValidate /\ [][Validate]_vars

----------------------------------------------------------------------------
(* sanitize_metadata as a function of its argument                         *)

KeyInputs ==
    {"title", "a b", "a_b", "x-y_1", "caf" \o EACUTE, "<k>", "",
     RepStr("k", MaxKeyLen + 1)}

LongList == [i \in 1..(MaxListLen + 1) |-> [t |-> "str", v |-> "i" \o ToString(i)]]

ValueInputs ==
    {[t |-> "str", v |-> "plain"],
     [t |-> "str", v |-> "<b>T</b> javaJAVASCRIPT:script:x"],
     [t |-> "str", v |-> RepStr("s", MaxStrLen + 1)],
     [t |-> "int", v |-> 7],
     [t |-> "bool", v |-> TRUE],
     [t |-> "list", v |-> LongList],
     [t |-> "list", v |-> <<[t |-> "str", v |-> RepStr("i", MaxItemLen + 1)],
                            [t |-> "int", v |-> 3],
                            [t |-> "str", v |-> "<i>x</i>"]>>],
     [t |-> "other", v |-> "2024-01-01"],
     [t |-> "other", v |-> RepStr("<o", MaxStrLen)]}

\* Mappings of one pair, of two pairs whose keys may clean to the same key,
\* and mappings nested once and twice under the key "meta".
FlatInputs == {<<<<k, v>>>> : k \in KeyInputs, v \in ValueInputs}

PairInputs ==
    {<<<<k1, [t |-> "int", v |-> 1]>>, <<k2, [t |-> "bool", v |-> FALSE]>>>> :
        k1 \in {"a b", "a_b", ""}, k2 \in {"a_b", "a-b", "a b"}}

Nest(m) == <<<<"meta", [t |-> "dict", v |-> m]>>>>

MetadataInputs ==
    FlatInputs \cup PairInputs \cup {Nest(m) : m \in FlatInputs}
    \cup {Nest(Nest(m)) : m \in PairInputs} \cup {<<>>}

InitSanitize ==
    /\ Started
    /\ fin \in [metadata : MetadataInputs]
    /\ fout = [done |-> FALSE]

Sanitize ==
    /\ ~fout.done
    /\ fout' = [done |-> TRUE, out |-> SanitizeMetadata(fin.metadata)]
    /\ UNCHANGED <<store, now, issued, swept, req, ret, fin>>

SpecSanitize == InitSanitize /\ [][Sanitize]_vars

----------------------------------------------------------------------------
(* security.py: sanitize_filename                                          *)

MaxNameLen == 255

\* [A-Za-z0-9_.-]
NameChars ==
    CharsOf(UpperAlpha) \cup CharsOf(LowerAlpha) \cup CharsOf(Digits) \cup {"_", ".", "-"}

\* The characters of s[lo..hi] that are in keep, in order.
RECURSIVE KeepChars(_, _, _, _)
KeepChars(s, keep, lo, hi) ==
    IF lo > hi THEN ""
    ELSE IF lo = hi THEN (IF Char(s, lo) \in keep THEN Char(s, lo) ELSE "")
    ELSE LET m == (lo + hi) \div 2
         IN KeepChars(s, keep, lo, m) \o KeepChars(s, keep, m + 1, hi)

\* s[lo..hi] with each run of characters of cs replaced by rep.
RECURSIVE CollapseRuns(_, _, _, _, _)
CollapseRuns(s, cs, rep, lo, hi) ==
    IF lo > hi THEN ""
    ELSE IF lo = hi
    THEN (IF Char(s, lo) \notin cs THEN Char(s, lo)
          ELSE IF lo > 1 /\ Char(s, lo - 1) \in cs THEN ""
          ELSE rep)
    ELSE LET m == (lo + hi) \div 2
         IN CollapseRuns(s, cs, rep, lo, m) \o CollapseRuns(s, cs, rep, m + 1, hi)

\* s[lo..hi] with the accent of each accented letter dropped: NFKD
\* normalisation followed by encode("ascii", "ignore").
RECURSIVE ToAscii(_, _, _)
ToAscii(s, lo, hi) ==
    IF lo > hi THEN ""
    ELSE IF lo = hi THEN (IF Char(s, lo) = EACUTE THEN "e" ELSE Char(s, lo))
    ELSE LET m == (lo + hi) \div 2
         IN ToAscii(s, lo, m) \o ToAscii(s, m + 1, hi)

\* werkzeug.utils.secure_filename(filename) on a POSIX system: the name in
\* ASCII, each "/" a space, the words joined by "_", the characters outside
\* [A-Za-z0-9_.-] dropped, and leading and trailing "." and "_" stripped.
SecureFilename(filename) ==
    LET ascii == ToAscii(filename, 1, Len(filename))
        spaced == CollapseRuns(ascii, {"/"} \cup WhiteSpace, " ", 1, Len(ascii))
        words == StripWs(spaced)
        joined == CollapseRuns(words, {" "}, "_", 1, Len(words))
        kept == KeepChars(joined, NameChars, 1, Len(joined))
    IN Strip(kept, {".", "_"})

\* The position of the dot that starts Path(name).suffix, or 0 when the name
\* has no suffix: the last dot, unless it is the first or last character.
SuffixStart(name) ==
    LET dots == {i \in 1..Len(name) : Char(name, i) = "."}
    IN IF dots = {} THEN 0
       ELSE LET i == CHOOSE d \in dots : \A e \in dots : e <= d
            IN IF 1 < i /\ i < Len(name) THEN i ELSE 0

\* Path(name).stem
Stem(name) == IF SuffixStart(name) = 0 THEN name ELSE SubSeq(name, 1, SuffixStart(name) - 1)

\* Path(name).suffix
Suffix(name) == IF SuffixStart(name) = 0 THEN "" ELSE SubSeq(name, SuffixStart(name), Len(name))

\* base[:n] for any integer n: a negative n counts from the end.
Slice(base, n) ==
    IF n >= 0 THEN Truncate(base, n)
    ELSE IF Len(base) + n > 0 THEN SubSeq(base, 1, Len(base) + n)
    ELSE ""

\* The 255-character ceiling of sanitize_filename.
LimitLength(safe_name) ==
    IF Len(safe_name) > MaxNameLen
    THEN Slice(Stem(safe_name), MaxNameLen - Len(Suffix(safe_name))) \o Suffix(safe_name)
    ELSE safe_name

\* The name sanitize_filename has before it limits the length.
CleanedName(filename) ==
    LET secured == SecureFilename(filename)
        nosep == RemoveAll(RemoveAll(secured, "/"), "\\")
        word == {c \in NameChars : IsWordChar(c)} \cup WhiteSpace \cup {".", "-", EACUTE}
        plain == KeepChars(nosep, word, 1, Len(nosep))
    IN CollapseRuns(plain, WhiteSpace \cup {"_"}, "_", 1, Len(plain))

\* sanitize_filename(filename)
SanitizeFilename(filename) ==
    LET limited == LimitLength(CleanedName(filename))
    IN IF limited = "" \/ limited = "." THEN "unnamed.md" ELSE limited

NameHeads == {"", "../", " ", "caf" \o EACUTE, "<x>"}

NameBodies == {"", "my document", "a__b", ".", RepStr("a", MaxNameLen + 45)}

NameTails == {"", ".md", ".", ".tar.gz", "." \o RepStr("b", MaxNameLen + 45)}

FilenameInputs == {a \o b \o c : a \in NameHeads, b \in NameBodies, c \in NameTails}

InitFilename ==
    /\ Started
    /\ fin \in [filename : FilenameInputs]
    /\ fout = [done |-> FALSE]

SanitizeName ==
    /\ ~fout.done
    /\ fout' = [done |-> TRUE, out |-> SanitizeFilename(fin.filename)]
    /\ UNCHANGED <<store, now, issued, swept, req, ret, fin>>

SpecFilename == InitFilename /\ [][SanitizeName]_vars

----------------------------------------------------------------------------
(* parse_markdown as a function of its argument                            *)

ParsePads == {"", " ", "\n", "\t "}

ParseEnds == {"", "\n", " \n"}

\* Texts without front matter, with a block that loads, with an
\* unterminated block, with blocks on which the YAML loader raises, and
\* with a block that is no mapping.
ParseBodies ==
    {"", "Body", "# T\n\ntext", "--\nx", "text\n--- \nmore",
     "---\ntitle: T\n---\nBody",
     "---\ntitle: T\nBody",
     "---\n[bad\n---\nBody",
     "---\ntitle: T\nfoo\n---\nB",
     "---\njust text\n---\nBody"}

ParseInputs == {a \o b \o c : a \in ParsePads, b \in ParseBodies, c \in ParseEnds}

InitParse ==
    /\ Started
    /\ fin \in [content : ParseInputs]
    /\ fout = [done |-> FALSE]

Parse ==
    /\ ~fout.done
    /\ fout' = [done |-> TRUE, out |-> ParseMarkdown(fin.content)]
    /\ UNCHANGED <<store, now, issued, swept, req, ret, fin>>

SpecParse == InitParse /\ [][Parse]_vars

----------------------------------------------------------------------------
(* One render call, from its start to its return or its exception          *)

\* What the external capability does on a call: it writes the file; it
\* raises; or it returns and the stat of the output file raises.
ToolOutcomes == {"ok", "tool_raises", "stat_raises"}

\* The exception e the try block catches.
Caught(outcome) ==
    IF outcome = "tool_raises"
    THEN [type |-> "RuntimeError", message |-> "Pandoc died with exitcode 1"]
    ELSE [type |-> "FileNotFoundError", message |-> "No such file or directory"]

\* A renderer whose except clause lets the exception through as it is.
ConvertUnwrapped(label, output_path, outcome) ==
    IF outcome = "ok"
    THEN [state |-> "succeeded", value |-> output_path, calls |-> 1]
    ELSE [state |-> "failed", calls |-> 1, error |-> Caught(outcome)]

\* The end of convert_to_docx (label DOCX) and of convert_to_pdf (label
\* PDF): the path returned, or ConversionError(error_msg) from e; calls is
\* the number of invocations of the capability.
Convert(label, output_path, outcome) ==
    IF outcome = "ok"
    THEN [state |-> "succeeded", value |-> output_path, calls |-> 1]
    ELSE [state |-> "failed", calls |-> 1,
          error |-> [type |-> "ConversionError",
                     message |-> label \o " conversion failed: " \o Caught(outcome).message,
                     cause |-> Caught(outcome)]]

RenderContents == {"Body", "---\ntitle: Report\nauthor: Jane\n---\nBody",
                   "---\n[bad\n---\nBody", "", " # T\n"}

RenderPaths == {"/tmp/converted/" \o UuidPool[1] \o "/report", "out"}

InitRender ==
    /\ Started
    /\ fin \in [content : RenderContents, format : ValidFormats,
                include : BOOLEAN, path : RenderPaths, tool : ToolOutcomes]
    /\ fout = [state |-> "pending", calls |-> 0]

\* The call enters its try block: the content is parsed and the document
\* for the capability is built.
BeginRender ==
    /\ fout.state = "pending"
    /\ fout' = [state |-> "rendering", calls |-> 0,
                document |-> IF fin.format = "docx"
                             THEN [docx |-> ConvertToDocxDocument(fin.content, fin.include)]
                             ELSE [pdf |-> ConvertToPdfDocument(fin.content, fin.include, "")]]
    /\ UNCHANGED <<store, now, issued, swept, req, ret, fin>>

\* The capability runs and the call ends.
EndRender ==
    /\ fout.state = "rendering"
    /\ fout' = Convert(IF fin.format = "docx" THEN "DOCX" ELSE "PDF",
                       fin.path \o "." \o fin.format, fin.tool)
    /\ UNCHANGED <<store, now, issued, swept, req, ret, fin>>

RenderNext ==
    \/ BeginRender
    \/ EndRender

SpecRender == InitRender /\ [][RenderNext]_vars

----------------------------------------------------------------------------
(* The two renderers' documents as functions of the metadata               *)

\* The fields a document's metadata is drawn from.
FormatFields ==
    {<<"title", [t |-> "str", v |-> "Report"]>>,
     <<"author", [t |-> "str", v |-> "Jane"]>>,
     <<"date", [t |-> "str", v |-> "2024-01-02"]>>,
     <<"tags", [t |-> "list", v |-> <<[t |-> "str", v |-> "a"], [t |-> "str", v |-> "b"]>>]>>,
     <<"custom_key", [t |-> "str", v |-> "v"]>>}

\* The mappings of up to three of the fields, in every order.
FormatInputsOf(n) ==
    {m \in [1..n -> FormatFields] : \A i, j \in 1..n : i # j => m[i] # m[j]}

InitFormat ==
    /\ Started
    /\ fin \in [metadata : UNION {FormatInputsOf(n) : n \in 0..3},
                body : {"Body"}, include : BOOLEAN]
    /\ fout = [done |-> FALSE]

\* The document of each renderer for the metadata and the body.
Format ==
    /\ ~fout.done
    /\ fout' = [done |-> TRUE,
                docx |-> DocxDocument(fin.metadata, fin.body, fin.include),
                pdf |-> PdfDocument(fin.metadata, fin.body, fin.include, "")]
    /\ UNCHANGED <<store, now, issued, swept, req, ret, fin>>

SpecFormat == InitFormat /\ [][Format]_vars

----------------------------------------------------------------------------
(* security.py: is_safe_redirect_url                                       *)

\* urllib.parse.urlparse(url), its scheme and netloc: the scheme is what
\* precedes the first colon when that begins with a letter and holds only
\* letters, digits, "+", "-" and "."; the netloc is what follows a "//"
\* after the scheme, up to the next "/", "?" or "#".
UrlParse(url) ==
    LET colons == Occurrences(url, ":")
        i == IF colons = {} THEN 0 ELSE Min(colons)
        has == /\ i > 1
               /\ Char(url, 1) \in CharsOf(LowerAlpha) \cup CharsOf(UpperAlpha)
               /\ \A k \in 1..(i - 1) :
                    Char(url, k) \in CharsOf(LowerAlpha) \cup CharsOf(UpperAlpha)
                                     \cup CharsOf(Digits) \cup {"+", "-", "."}
        scheme == IF has THEN Join([k \in 1..(i - 1) |-> LowerChar(Char(url, k))], "") ELSE ""
        rest == IF has THEN SubSeq(url, i + 1, Len(url)) ELSE url
        after == SubSeq(rest, 3, Len(rest))
        stops == {k \in 1..Len(after) : Char(after, k) \in {"/", "?", "#"}}
    IN [scheme |-> scheme,
        netloc |-> IF StartsWith(rest, "//")
                   THEN SubSeq(after, 1, IF stops = {} THEN Len(after) ELSE Min(stops) - 1)
                   ELSE ""]

\* is_safe_redirect_url(url, allowed_hosts)
IsSafeRedirectUrl(url, allowed_hosts) ==
    IF url = "" THEN FALSE
    ELSE IF StartsWith(url, "/") THEN TRUE
    ELSE LET parsed == UrlParse(url)
         IN IF parsed.scheme = "" \/ parsed.netloc = "" THEN TRUE
            ELSE parsed.netloc \in allowed_hosts

\* The URLs checked: with and without a scheme, with no, one or two
\* slashes, a host, with and without a path; and the empty URL.
UrlInputs ==
    {sc \o sl \o h \o pa : sc \in {"", "http:", "HTTPS:"}, sl \in {"", "/", "//"},
                           h \in {"good.com", "evil.com"}, pa \in {"", "/x"}}
    \cup {""}

InitRedirect ==
    /\ Started
    /\ fin \in [url : UrlInputs,
                allowed_hosts : {{}, {"good.com"}, {"good.com", "other.org"}}]
    /\ fout = [done |-> FALSE]

Redirect ==
    /\ ~fout.done
    /\ fout' = [done |-> TRUE, out |-> IsSafeRedirectUrl(fin.url, fin.allowed_hosts)]
    /\ UNCHANGED <<store, now, issued, swept, req, ret, fin>>

SpecRedirect == InitRedirect /\ [][Redirect]_vars

----------------------------------------------------------------------------
(* Properties of the conversion pipeline (Spec)                            *)

\* The files in a request's job directory.
JobFiles(r) ==
    IF req[r].job \in DOMAIN store THEN DOMAIN store[req[r].job].files ELSE {}

\* A request for both formats whose PDF renderer failed.
SecondFailed(r) ==
    /\ req[r].formats = "both"
    /\ req[r].pc = "failed"
    /\ req[r].log[Len(req[r].log)] = "pdf"

\* C1: when two formats are requested and the second renderer fails, the
\* request fails with ConversionError, no result is recorded and the job's
\* directory holds no output file of either format.
C1_AllOrNothing ==
    \A r \in Reqs :
        SecondFailed(r) =>
            /\ req[r].error = "ConversionError"
            /\ req[r].results = <<>>
            /\ JobFiles(r) = {}

\* C3: whatever a renderer put into its output is what it would have put
\* there from the sanitized metadata: the rendered DOCX and PDF of a finished
\* request equal the documents built from the output of sanitize_metadata.
C3_SanitizedBeforeRender ==
    \A r \in Reqs :
        req[r].pc = "done" =>
            LET both == req[r].formats = "both"
                meta == req[r].doc.metadata
                body == req[r].doc.body
            IN /\ req[r].formats \in {"docx", "both"} =>
                    req[r].docx = DocxDocument(meta, body,
                                               IF both THEN FALSE ELSE IncludeFrontMatter)
               /\ req[r].formats \in {"pdf", "both"} =>
                    req[r].pdf = PdfDocument(meta, body,
                                             IF both THEN TRUE ELSE IncludeFrontMatter, "")

\* Content that validation must refuse.
Refused(content) == Contains(content, NUL) \/ Utf8Len(content) > MaxFileSize

\* C8: a submitted content that holds a null byte or exceeds the size limit
\* is rejected with nothing done but the validation: no job id, no job
\* directory, no renderer run; the job directories are those of the accepted
\* requests only.
C8_FailFast ==
    /\ \A r \in Reqs :
        (req[r].pc # "idle" /\ Refused(req[r].content)) =>
            /\ req[r].pc = "rejected"
            /\ req[r].error \in {"BinaryContentDetected", "ContentTooLarge"}
            /\ req[r].job = ""
            /\ req[r].log = <<"validate">>
            /\ req[r].results = <<>>
    /\ Cardinality(DOMAIN store) = Cardinality({r \in Reqs : req[r].pc \notin {"idle", "rejected"}})
    /\ Cardinality(issued) = Cardinality(DOMAIN store)

\* A request with a null byte was rejected next to one that was accepted and
\* finished: the only job directory is the accepted request's.
C8_Witness ==
    \E r, q \in Reqs :
        /\ req[r].pc = "rejected"
        /\ req[r].error = "BinaryContentDetected"
        /\ req[q].pc = "done"
        /\ DOMAIN store = {req[q].job}

----------------------------------------------------------------------------
(* Properties of the job store (SpecStore, SpecExpiry)                     *)

\* The directory named by an id directly under the base directory.
DirOf(job_id) == BaseDir \o "/" \o job_id

\* The last call was get_file_path.
Resolved == ret.op = "resolve"

\* The files of the directory of the id last looked up that carry the
\* extension last asked for.
Matching ==
    IF DirOf(ret.job_id) \in DOMAIN store
    THEN {n \in DOMAIN store[DirOf(ret.job_id)].files : EndsWith(n, "." \o ret.format)}
    ELSE {}

C4_ExpiredNeverResolved ==
    (Resolved /\ ret.job_id \in issued
        /\ \A e \in IsJobExpired(ret.job_id, BaseDir, MaxAgeHours, store, now) : e.result)
    => ret.out.kind # "path"

\* C4, amended: expiry alone hides nothing; it is the sweep that makes a job
\* unrecoverable.  When a sweep deletes the directory of an expired job,
\* get_file_path returns None for that job's id in every format.
C4_SweptUnresolvable ==
    [][\A id \in issued :
            DirOf(id) \in swept' \ swept =>
                \A f \in ValidFormats :
                    \A o \in GetFilePath(id, f, BaseDir, store') : o.kind = "none"]_vars

\* A job that was swept is looked up and None is returned.
C4_Witness ==
    /\ Resolved
    /\ DirOf(ret.job_id) \in swept
    /\ ret.format \in ValidFormats
    /\ ret.out.kind = "none"

\* C5: for an id that is not a valid UUID, get_file_path raises InvalidJobId
\* having done nothing but check the id: no path built, no containment
\* check, no access to the file system.
C5_InvalidIdFirst ==
    (Resolved /\ ~IsValidUUID(ret.job_id)) =>
        ret.out = [kind |-> "error", value |-> "InvalidJobId", steps |-> <<"uuid">>]

\* The crafted id "../../etc" was refused.
C5_Witness ==
    /\ Resolved
    /\ ret.job_id = "../../etc"
    /\ ret.format \in ValidFormats
    /\ ret.out.value = "InvalidJobId"

\* C6: for a valid UUID and a recognised format, get_file_path returns None
\* exactly when the job directory is missing or holds no file with the
\* format's extension; otherwise it returns a file of that directory whose
\* extension is the format asked for; it raises nothing.
C6_NoneOrMatchingFile ==
    (Resolved /\ IsValidUUID(ret.job_id) /\ ret.format \in {"docx", "pdf"}) =>
        /\ ret.out.kind \in {"none", "path"}
        /\ ret.out.kind = "none" <=> Matching = {}
        /\ ret.out.kind = "path" =>
                \E n \in Matching : ret.out.value = DirOf(ret.job_id) \o "/" \o n

\* None was returned for an existing job directory that holds a file of the
\* other format only.
C6_Witness ==
    /\ Resolved
    /\ ret.out.kind = "none"
    /\ DirOf(ret.job_id) \in DOMAIN store
    /\ DOMAIN store[DirOf(ret.job_id)].files # {}

\* C7: for a format other than docx and pdf, get_file_path raises and
\* returns no path: InvalidFormat when the id is a valid UUID, InvalidJobId
\* when the id is invalid too.
C7_InvalidFormat ==
    (Resolved /\ ret.format \notin {"docx", "pdf"}) =>
        /\ ret.out.kind = "error"
        /\ ret.out.value = IF IsValidUUID(ret.job_id) THEN "InvalidFormat"
                           ELSE "InvalidJobId"

\* An unrecognised format was refused for a job that has files.
C7_Witness ==
    /\ Resolved
    /\ ret.format = "exe"
    /\ ret.out.value = "InvalidFormat"
    /\ DirOf(ret.job_id) \in DOMAIN store
    /\ DOMAIN store[DirOf(ret.job_id)].files # {}

----------------------------------------------------------------------------
(* Properties of validate_file_content (SpecValidate)                      *)

\* C9: validate_file_content raises ContentTooLarge exactly when the UTF-8
\* length of the content is greater than max_size; within the size it raises
\* BinaryContentDetected when the content holds a null byte and returns True
\* otherwise, whatever suspicious patterns the content matches.
C9_ValidateContent ==
    fout.done =>
        LET size == Utf8Len(fin.content)
            result == fout.out.result
        IN /\ result = "ContentTooLarge" <=> size > fin.max_size
           /\ (size <= fin.max_size /\ Contains(fin.content, NUL))
                => result = "BinaryContentDetected"
           /\ (size <= fin.max_size /\ ~Contains(fin.content, NUL))
                => result = "ok"

\* Content of exactly max_size bytes, more bytes than characters, matching a
\* suspicious pattern, was accepted.
C9_Witness ==
    /\ fout.done
    /\ Utf8Len(fin.content) = fin.max_size
    /\ Len(fin.content) < fin.max_size
    /\ fout.out.result = "ok"

----------------------------------------------------------------------------
(* Properties of sanitize_metadata (SpecSanitize)                          *)

\* ^[A-Za-z0-9_-]{1,50}$
KeyConforms(k) ==
    /\ Len(k) \in 1..50
    /\ \A i \in 1..Len(k) : IsAsciiWordChar(Char(k, i)) \/ Char(k, i) = "-"

RECURSIVE Conforms(_)
Conforms(d) ==
    \A i \in 1..Len(d) :
        LET k == d[i][1]
            x == d[i][2]
        IN /\ KeyConforms(k)
           /\ x.t \in {"str", "int", "bool", "list", "dict"}
           /\ x.t = "str" => Len(x.v) <= 500
           /\ x.t = "list" =>
                /\ Len(x.v) <= 10
                /\ \A j \in 1..Len(x.v) : x.v[j].t = "str" /\ Len(x.v[j].v) <= 100
           /\ x.t = "dict" => Conforms(x.v)

\* C10: the output of sanitize_metadata has, at every depth, only keys
\* matching ^[A-Za-z0-9_-]{1,50}$, strings of at most 500 characters and
\* lists of at most 10 items of at most 100 characters; a number or boolean
\* under a key of its own comes out unchanged.
C10_SanitizedShape ==
    fout.done =>
        /\ Conforms(fout.out)
        /\ (Len(fin.metadata) = 1 /\ fin.metadata[1][2].t \in {"int", "bool"}
                /\ CleanKey(fin.metadata[1][1]) # "")
            => fout.out = <<<<CleanKey(fin.metadata[1][1]), fin.metadata[1][2]>>>>

\* The string values of a mapping, at every depth.
RECURSIVE StringValues(_)
StringValues(d) ==
    UNION {IF d[i][2].t = "str" THEN {d[i][2].v}
           ELSE IF d[i][2].t = "dict" THEN StringValues(d[i][2].v)
           ELSE {} : i \in 1..Len(d)}

\* C11: no string value of the output of sanitize_metadata holds a tag-like
\* substring ("<", one or more characters other than ">", ">") nor the
\* prefix "javascript:" in any letter case.
C11_NoTagNoScheme ==
    fout.done =>
        \A v \in StringValues(fout.out) :
            /\ TagStarts(v) = {}
            /\ OccurrencesNoCase(v, "javascript:") = {}

----------------------------------------------------------------------------
(* Properties of sanitize_filename (SpecFilename)                          *)

\* C12: sanitize_filename returns a non-empty name of at most 255
\* characters, all of them in [A-Za-z0-9_.-]; a cleaned name longer than
\* 255 characters keeps its extension; an empty cleaned name gives
\* "unnamed.md".
C12_SafeFilename ==
    fout.done =>
        LET cleaned == CleanedName(fin.filename)
        IN /\ fout.out # ""
           /\ Len(fout.out) <= 255
           /\ \A i \in 1..Len(fout.out) : Char(fout.out, i) \in NameChars
           /\ Len(cleaned) > 255 => EndsWith(fout.out, Suffix(cleaned))
           /\ cleaned \in {"", "."} => fout.out = "unnamed.md"

----------------------------------------------------------------------------
(* Properties of parse_markdown (SpecParse)                                *)

\* The lines of a text.
LinesOf(text) == Split(text, "\n")

\* No line of the text is a front-matter delimiter.
NoDelimiter(text) ==
    \A i \in 1..Len(LinesOf(text)) : ~IsBoundary(StripWs(LinesOf(text)[i]))

\* C13: parsing a text that has no delimiter block returns empty metadata
\* and the text itself as the body, character for character; the empty
\* text gives empty metadata and an empty body.
C13_NoBlockRoundTrip ==
    (fout.done /\ NoDelimiter(fin.content)) =>
        fout.out = [metadata |-> <<>>, body |-> fin.content]

\* The text opens with a delimited block on which the YAML loader raises.
BlockFails(content) ==
    LET lines == LinesOf(StripWs(content))
        ends == {k \in 2..Len(lines) : IsBoundary(lines[k])}
    IN /\ IsBoundary(lines[1])
       /\ ends # {}
       /\ ~YamlLoad(SubSeq(lines, 2, Min(ends) - 1)).ok

----------------------------------------------------------------------------
(* Properties of the sweep and the expiry test (SpecSweep)                 *)

\* The directories older than the limit as a sweep starts.
Expired == {d \in DOMAIN store : now - store[d].mtime > MaxAgeHours}

\* The directories a step removes.
Removed == DOMAIN store \ DOMAIN store'

\* C15: a sweep deletes every directory older than now - max_age_hours,
\* leaves every younger directory and its files as they were, and returns
\* the number of directories it deleted.
C15_SweepDeletesExpired ==
    [][Sweep =>
        /\ \A d \in Expired : d \notin DOMAIN store'
        /\ \A d \in DOMAIN store \ Expired : d \in DOMAIN store' /\ store'[d] = store[d]
        /\ ret'.count = Cardinality(Removed)]_vars

\* C15, amended: a sweep deletes every expired directory except those on
\* which stat or rmtree fails, removes nothing else, leaves every younger
\* directory and its files as they were, and returns the number of
\* directories it deleted.
C15_SweepDeletesUnlessFailed ==
    [][Sweep =>
        /\ \A d \in Expired : d \notin DOMAIN store' \/ d \in ret'.failed
        /\ Removed \subseteq Expired
        /\ \A d \in DOMAIN store \ Expired : d \in DOMAIN store' /\ store'[d] = store[d]
        /\ ret'.count = Cardinality(Removed)]_vars

\* A sweep has deleted an expired directory and left a younger one, files
\* included.
C15_Witness ==
    /\ ret.op = "sweep"
    /\ ret.count = 1
    /\ swept # {}
    /\ \E d \in DOMAIN store :
        /\ now - store[d].mtime <= MaxAgeHours
        /\ DOMAIN store[d].files # {}

C18_ExpiredTest ==
    ret.op = "expired" =>
        LET dir == DirOf(ret.job_id)
        IN /\ dir \notin DOMAIN store => ret.out.result
           /\ ret.out.stat = "error" => ret.out.result
           /\ (dir \in DOMAIN store /\ ret.out.stat = "ok") =>
                /\ ret.out.result <=> now - store[dir].mtime > MaxAgeHours
                /\ ret.out.result <=>
                        \E o \in CleanupOldFiles(store, now, MaxAgeHours) :
                            dir \in o.deleted

\* A directory aged exactly max_age_hours was found not expired.
C18_Witness ==
    /\ ret.op = "expired"
    /\ DirOf(ret.job_id) \in DOMAIN store
    /\ now - store[DirOf(ret.job_id)].mtime = MaxAgeHours
    /\ ret.out.stat = "ok"
    /\ ~ret.out.result

----------------------------------------------------------------------------
(* Properties of secure_delete_file (SpecDelete)                           *)

----------------------------------------------------------------------------
(* Properties of job creation (SpecSweep)                                  *)

\* The path is the base directory followed by one component, the id.
DirectChild(path, base_dir, job_id) ==
    /\ path = base_dir \o "/" \o job_id
    /\ ~Contains(job_id, "/")
    /\ job_id \notin {"", ".", ".."}

\* C20: every job directory is a direct child of the base directory named
\* by the id of a job, and each job creation returns an id no earlier job
\* has and makes a new, empty directory for it, leaving the others alone.
C20_JobDirectory ==
    /\ [](/\ \A d \in DOMAIN store : \E id \in issued : DirectChild(d, BaseDir, id)
          /\ \A id \in issued :
                DirectChild(GetJobDirectory(id, BaseDir, store, now).path, BaseDir, id))
    /\ [][CreateJob =>
            \E id \in issued' \ issued :
                /\ issued' = issued \cup {id}
                /\ DirOf(id) \notin DOMAIN store
                /\ DOMAIN store' = DOMAIN store \cup {DirOf(id)}
                /\ store'[DirOf(id)].files = NoFiles
                /\ \A d \in DOMAIN store : store'[d] = store[d]]_vars

\* A second job was created beside one that has a file: its directory is
\* new and empty.
C20_Witness ==
    /\ ret.op = "create"
    /\ Cardinality(issued) = 2
    /\ \A id \in issued : DirOf(id) \in DOMAIN store
    /\ \E id \in issued : store[DirOf(id)].files = NoFiles
    /\ \E id \in issued : store[DirOf(id)].files # NoFiles

----------------------------------------------------------------------------
(* Properties of concurrent requests (Spec, SpecRace)                      *)

\* The requests that have a job.
WithJob == {r \in Reqs : req[r].job # ""}

\* C21: no two requests have the same job directory, the directory of a
\* request is one made for it under the base directory, and a render step
\* of a request writes nowhere but in that request's directory.
C21_OwnDirectory ==
    /\ [](/\ \A r1, r2 \in WithJob : r1 # r2 => req[r1].job # req[r2].job
          /\ \A r \in WithJob : \E id \in issued : req[r].job = DirOf(id))
    /\ [][\A r \in Reqs :
            (RenderDocx(r) \/ RenderPdf(r)) =>
                /\ DOMAIN store \subseteq DOMAIN store'
                /\ DOMAIN store' \subseteq DOMAIN store \cup {req[r].job}
                /\ \A d \in DOMAIN store \ {req[r].job} : store'[d] = store[d]]_vars

\* Two requests have both written their output, each in its own directory.
C21_Witness ==
    /\ \A r \in Reqs : req[r].pc = "done"
    /\ \A r \in Reqs : req[r].job \in DOMAIN store
                        /\ DOMAIN store[req[r].job].files # {}
    /\ req[1].job # req[2].job

\* The requests whose conversion is under way.
InFlight == {r \in Reqs : req[r].pc \in {"docx", "pdf"}}

\* C22: a sweep never deletes the directory of a request whose conversion
\* is still under way.
C22_SweepSparesInFlight ==
    [][\A r \in InFlight : req[r].job \notin swept' \ swept]_vars

----------------------------------------------------------------------------
(* Properties of a render call (SpecRender)                                *)

----------------------------------------------------------------------------
(* Properties of the front-matter block (SpecFormat)                       *)

\* The field a line of the heading block shows, as <<label, value>>: the
\* heading is the title, a line in bold holds a label and a value.
BlockField(line) ==
    IF StartsWith(line, "# ") THEN <<"Title", SubSeq(line, 3, Len(line))>>
    ELSE LET at == Min(Occurrences(line, ":** "))
         IN <<SubSeq(line, 3, at - 1), SubSeq(line, at + 4, Len(line) - 2)>>

\* The fields of the heading block of a document, in the order shown.
BlockFields(document) ==
    LET lines == Split(document, "\n")
        shown == SelectSeq(lines, LAMBDA l : StartsWith(l, "# ") \/ StartsWith(l, "**"))
    IN [i \in 1..Len(shown) |-> BlockField(shown[i])]

\* The field a paragraph of the info panel shows.
PanelField(line) ==
    LET at == Min(Occurrences(line, ":</strong> "))
    IN <<SubSeq(line, 12, at - 1), SubSeq(line, at + 11, Len(line) - 4)>>

\* The fields of the info panel, in the order shown.
PanelFields(front) ==
    LET lines == Split(front, "\n")
        shown == SelectSeq(lines, LAMBDA l : StartsWith(l, "<p><strong>"))
    IN [i \in 1..Len(shown) |-> PanelField(shown[i])]

\* The fields of a mapping in the fixed order: the title, then author,
\* date and tags where present, then the other keys in the mapping's order.
RECURSIVE Others(_)
Others(metadata) ==
    IF Len(metadata) = 0 THEN <<>>
    ELSE (IF Head(metadata)[1] \in {"title", "author", "date", "tags"} THEN <<>>
          ELSE <<<<KeyDisplay(Head(metadata)[1]), Shown(Head(metadata)[2], TRUE)>>>>)
         \o Others(Tail(metadata))

FixedOrder(metadata) ==
    <<<<"Title", Shown(Get(metadata, "title", [t |-> "str", v |-> "Untitled Document"]), FALSE)>>>>
    \o (IF Has(metadata, "author")
        THEN <<<<"Author", Shown(Get(metadata, "author", <<>>), FALSE)>>>> ELSE <<>>)
    \o (IF Has(metadata, "date")
        THEN <<<<"Date", Shown(Get(metadata, "date", <<>>), FALSE)>>>> ELSE <<>>)
    \o (IF Has(metadata, "tags")
        THEN <<<<"Tags", Shown(Get(metadata, "tags", <<>>), TRUE)>>>> ELSE <<>>)
    \o Others(metadata)

\* C24: with include_front_matter set and metadata that is not empty the
\* document for the DOCX begins with a block, the title as a heading, then
\* author, date and tags where present, then the other keys title-cased in
\* the mapping's order, and the body follows the block; for title Report
\* and author Jane the document is the heading "# Report", the line
\* "**Author:** Jane" and the body.  Otherwise the document is the body.
C24_HeadingBlock ==
    fout.done =>
        IF fin.include /\ fin.metadata # <<>>
        THEN /\ StartsWith(fout.docx, "# ")
             /\ BlockFields(fout.docx) = FixedOrder(fin.metadata)
             /\ EndsWith(fout.docx, "\n\n---\n\n" \o fin.body)
             /\ fin.metadata = <<<<"title", [t |-> "str", v |-> "Report"]>>,
                                 <<"author", [t |-> "str", v |-> "Jane"]>>>>
                    => fout.docx = "# Report\n\n**Author:** Jane  \n\n---\n\nBody"
             /\ fin.metadata = <<<<"custom_key", [t |-> "str", v |-> "v"]>>>>
                    => fout.docx = "# Untitled Document\n\n**Custom Key:** v  \n\n---\n\nBody"
        ELSE fout.docx = fin.body

\* A block was rendered for a mapping that gives the date before the
\* author and a custom key before the title.
C24_Witness ==
    /\ fout.done
    /\ fin.include
    /\ Len(fin.metadata) = 3
    /\ fin.metadata[1][1] = "custom_key"
    /\ fin.metadata[2][1] = "date"
    /\ fin.metadata[3][1] = "author"
    /\ BlockFields(fout.docx) = <<<<"Title", "Untitled Document">>, <<"Author", "Jane">>,
                                  <<"Date", "2024-01-02">>, <<"Custom Key", "v">>>>

\* C25: for the same metadata the info panel of the PDF and the heading
\* block of the DOCX show the same fields with the same values in the same
\* order.
C25_SameFieldsSameOrder ==
    (fout.done /\ fin.include /\ fin.metadata # <<>>) =>
        PanelFields(fout.pdf.front) = BlockFields(fout.docx)

----------------------------------------------------------------------------
(* Further properties of sanitize_metadata (SpecSanitize)                  *)

\* C26: sanitize_metadata applied to its own result returns that result.
C26_SanitizeIdempotent ==
    fout.done => SanitizeMetadata(fout.out) = fout.out

----------------------------------------------------------------------------
(* Properties of convert_to_both (Spec)                                    *)

\* The requests for both formats that have ended well.
BothDone == {r \in Reqs : req[r].formats = "both" /\ req[r].pc = "done"}

\* C27: convert_to_both puts the metadata block in both documents or in
\* neither, and writes the DOCX first and the PDF second into the output
\* directory under one base name.
C27_BothAlike ==
    \A r \in BothDone :
        /\ (req[r].pdf.front # "") <=> StartsWith(req[r].docx, "# ")
        /\ req[r].results = <<[format |-> "docx", path |-> req[r].job \o "/" \o BaseName \o ".docx"],
                              [format |-> "pdf", path |-> req[r].job \o "/" \o BaseName \o ".pdf"]>>
        /\ SubSeq(req[r].log, Len(req[r].log) - 1, Len(req[r].log)) = <<"docx", "pdf">>

\* The rest of C27 without the metadata block: the files, their names and
\* their order.
BothFilesInOrder ==
    \A r \in BothDone :
        /\ req[r].results = <<[format |-> "docx", path |-> req[r].job \o "/" \o BaseName \o ".docx"],
                              [format |-> "pdf", path |-> req[r].job \o "/" \o BaseName \o ".pdf"]>>
        /\ SubSeq(req[r].log, Len(req[r].log) - 1, Len(req[r].log)) = <<"docx", "pdf">>
        /\ {BaseName \o ".docx", BaseName \o ".pdf"} \subseteq DOMAIN store[req[r].job].files

----------------------------------------------------------------------------
(* Properties of get_job_directory and of a failed deletion (SpecDelete)   *)

\* C28: for an id that is not a valid UUID get_job_directory raises and
\* the store is as it was; for a valid id it returns the base directory
\* joined with the id, makes the directory, empty, when it is absent, and
\* leaves the store as it was when the directory is there.
C28_GetOrCreate ==
    [][GetDirectory =>
        LET id == ret'.job_id
            dir == BaseDir \o "/" \o id
        IN IF ~IsValidUUID(id)
           THEN ret'.error = "InvalidJobId" /\ store' = store
           ELSE /\ ret'.error = ""
                /\ ret'.path = dir
                /\ dir \in DOMAIN store => store' = store
                /\ dir \notin DOMAIN store =>
                        /\ DOMAIN store' = DOMAIN store \cup {dir}
                        /\ store'[dir].files = NoFiles
                        /\ \A d \in DOMAIN store : store'[d] = store[d]]_vars

\* get_job_directory returned a directory that holds a file.
C28_Witness ==
    /\ ret.op = "get_dir"
    /\ ret.error = ""
    /\ ret.path \in DOMAIN store
    /\ DOMAIN store[ret.path].files # {}

\* C29: when secure_delete_file returns False for a path that exists, the
\* store is as it was before the call.
C29_FailureLeavesStore ==
    [][(SecureDelete /\ ~ret'.result /\ PathExists(store, ret'.path)) =>
            store' = store]_vars

----------------------------------------------------------------------------
(* Properties of is_safe_redirect_url (SpecRedirect)                       *)

\* The host a URL names, none for a URL relative to the current host.
HostOf(url) == UrlParse(url).netloc

\* C30: is_safe_redirect_url returns True only for a URL that names no
\* host or names a host in allowed_hosts; it returns False for the empty
\* URL and for every URL that names a host outside allowed_hosts, one that
\* begins with "/" included.
C30_SafeRedirect ==
    fout.done =>
        /\ fout.out => (HostOf(fin.url) = "" \/ HostOf(fin.url) \in fin.allowed_hosts)
        /\ fin.url = "" => ~fout.out
        /\ (HostOf(fin.url) # "" /\ HostOf(fin.url) \notin fin.allowed_hosts) => ~fout.out

\* C30 for the URLs that do not begin with "/".
SafeRedirectWithoutSlash ==
    (fout.done /\ ~StartsWith(fin.url, "/")) =>
        /\ fout.out => (HostOf(fin.url) = "" \/ HostOf(fin.url) \in fin.allowed_hosts)
        /\ fin.url = "" => ~fout.out
        /\ (HostOf(fin.url) # "" /\ HostOf(fin.url) \notin fin.allowed_hosts) => ~fout.out

====
